---- MODULE Spec2Model ----
(***************************************************************************)
(* Model of the DEV.to scraper: main() in source/scraping/main.py calling  *)
(* scrape_top_articles() of core/scraper.py, which calls                   *)
(* scrape_comments() of core/utils.py for every deduplicated article.      *)
(*                                                                         *)
(* The browser is the environment: how many articles a query matches, what *)
(* href an article carries, and which Playwright call raises are drawn     *)
(* nondeterministically.  Variables that are not locals of the Python code *)
(* (contexts, pages, extracted, fetchLog, faults, sourceDry, abortReason,   *)
(* createFailed)                                                           *)
(* record what the browser saw, so that properties can be stated.          *)
(***************************************************************************)
EXTENDS Integers, Sequences, FiniteSets, TLC

\* Program constants
max_attempts == 3
max_scroll_attempts == 20

\* Bounds of the environment
\* top_n ranges over 1..MaxTopN and rotate_every over 1..MaxRotate
MaxTopN == 3
MaxRotate == 2
\* a scroll reveals at most MaxReveal stories, a listing holds at most
\* MaxLoaded; a scroll that reveals nothing means the listing is exhausted
MaxReveal == 2
MaxLoaded == 3
\* main() iterates over TOPICS x TRENDING_PERIODS of core/config.py and
\* passes top_n = 6: NumRequests pairs and top_n = MainTopN stand for them
NumRequests == 2
MainTopN == 2
\* at most MaxFaults browser calls raise in one run
MaxFaults == 3

\* Values
None == "None"
Hrefs == {"u1", "u2"}
HrefValues == Hrefs \cup {None}
\* the comment texts shown on the detail page of an href: one page with a
\* comment, the others without
PageComments(href) == IF href = "u1" THEN <<"c1">> ELSE <<>>

VARIABLES
    pc,               \* control position of main() / scrape_top_articles()
    top_n,            \* argument top_n
    rotate_every,     \* argument rotate_every
    requests,         \* number of (topic, trending_period) pairs of main()
    req,              \* 1-based index of the (topic, trending_period) pair
    df_list,          \* main(): one entry per returned DataFrame
    df,               \* main(): the concatenated DataFrame, <<>> before concat
    articles,         \* element handles matched by the last listing query
    scroll_attempts,
    top_articles,
    mi,               \* 1-based position of the metadata loop in top_articles
    metadata_list,
    scraped_urls,
    articles_data,
    i,                \* 0-based index of the detail loop
    attempt,          \* 0-based attempt of the retry loop
    main_context,     \* index into contexts, 0 = not created
    current_context,  \* index into contexts, 0 = None
    article_page,     \* index into pages of scrape_comments' page, 0 = none
    contexts,         \* every context created in this call, in creation order
    pages,            \* every detail page opened in this call
    extracted,        \* per listing item: the href extracted, or "ERR"
    fetchLog,         \* per detail item: how its retry loop ended
    faults,           \* number of raised browser errors so far in the run
    sourceDry,        \* the listing has no further stories to reveal
    abortReason,      \* why an exception left scrape_top_articles
    createFailed,     \* a browser.new_context() of the detail loop raised
    article,          \* extract_article_metadata: the element handle given
    metadata          \* extract_article_metadata: << >> or <<the record>>

mainVars    == <<top_n, rotate_every, requests, req, df_list, df>>
listingVars == <<articles, scroll_attempts, top_articles>>
metaVars    == <<mi, metadata_list, scraped_urls, extracted>>
detailVars  == <<articles_data, i, attempt, fetchLog>>
browserVars == <<main_context, current_context, article_page, contexts, pages>>
envVars     == <<faults, sourceDry, abortReason>>
extractVars == <<article, metadata>>
vars == <<pc, mainVars, listingVars, metaVars, detailVars, browserVars, envVars,
          createFailed, extractVars>>

Min(a, b) == IF a < b THEN a ELSE b

\* A fresh, open context or page
NewHandle == [open |-> TRUE, closes |-> 0]

\* close() on handle h of the sequence hs
Close(hs, h) == [hs EXCEPT ![h] = [open |-> FALSE, closes |-> @.closes + 1]]

\* page.query_selector_all("article.crayons-story") on a DOM holding n
\* stories: the handles in DOM order, a handle being its DOM position
QueryAll(n) == [j \in 1..n |-> j]

\* what is the same at the start of every run
InitRest ==
    /\ pc = "main"
    /\ req = 1
    /\ df_list = <<>>
    /\ df = <<>>
    /\ articles = <<>>
    /\ scroll_attempts = 0
    /\ top_articles = <<>>
    /\ mi = 1
    /\ metadata_list = <<>>
    /\ scraped_urls = {}
    /\ articles_data = <<>>
    /\ i = 0
    /\ attempt = 0
    /\ main_context = 0
    /\ current_context = 0
    /\ article_page = 0
    /\ contexts = <<>>
    /\ pages = <<>>
    /\ extracted = <<>>
    /\ fetchLog = <<>>
    /\ sourceDry = FALSE
    /\ abortReason = "none"
    /\ createFailed = FALSE

\* an article element without any of the sub-elements
EmptyArticle ==
    [title_link |-> <<>>, time_el |-> <<>>, read_time_el |-> <<>>,
     tag_el |-> <<>>, comments_el |-> <<>>, reactions_el |-> <<>>]

\* a run of one scrape_top_articles call, for every top_n and rotate_every
\* within the bounds, in which up to MaxFaults browser calls raise
Init ==
    /\ top_n \in 1..MaxTopN
    /\ rotate_every \in 1..MaxRotate
    /\ requests = 1
    /\ faults = 0
    /\ article = EmptyArticle
    /\ metadata = <<>>
    /\ InitRest

\* a run of main() over NumRequests requests in which no browser call raises
InitMain ==
    /\ top_n = MainTopN
    /\ rotate_every \in 1..MaxRotate
    /\ requests = NumRequests
    /\ faults = MaxFaults
    /\ article = EmptyArticle
    /\ metadata = <<>>
    /\ InitRest

\* main(): the next (topic, trending_period) pair calls scrape_top_articles,
\* which initialises its locals
StartRequest ==
    /\ pc = "main"
    /\ req <= requests
    /\ pc' = "goto"
    /\ articles' = <<>>
    /\ scroll_attempts' = 0
    /\ top_articles' = <<>>
    /\ mi' = 1
    /\ metadata_list' = <<>>
    /\ scraped_urls' = {}
    /\ extracted' = <<>>
    /\ articles_data' = <<>>
    /\ i' = 0
    /\ attempt' = 0
    /\ fetchLog' = <<>>
    /\ main_context' = 0
    /\ current_context' = 0
    /\ article_page' = 0
    /\ contexts' = <<>>
    /\ pages' = <<>>
    /\ sourceDry' = FALSE
    /\ createFailed' = FALSE
    /\ UNCHANGED <<mainVars, faults, abortReason>>
    /\ UNCHANGED extractVars

\* new_context(), new_page() and page.goto(url) of the listing page
ListingGoto ==
    /\ pc = "goto"
    /\ contexts' = Append(contexts, NewHandle)
    /\ main_context' = Len(contexts) + 1
    /\ \/ /\ pc' = "wait"
          /\ UNCHANGED <<faults, abortReason>>
       \/ /\ faults < MaxFaults
          /\ faults' = faults + 1
          /\ pc' = "aborted"
          /\ abortReason' = "listing_navigation"
    /\ UNCHANGED <<mainVars, listingVars, metaVars, detailVars,
                   current_context, article_page, pages, sourceDry>>
    /\ UNCHANGED createFailed
    /\ UNCHANGED extractVars

\* page.wait_for_load_state("networkidle") of the listing page, not guarded
ListingWait ==
    /\ pc = "wait"
    /\ \E timedOut \in BOOLEAN :
          IF timedOut
            THEN /\ pc' = "aborted"
                 /\ abortReason' = "listing_wait_timeout"
            ELSE /\ pc' = "query"
                 /\ UNCHANGED abortReason
    /\ UNCHANGED <<mainVars, listingVars, metaVars, detailVars, browserVars,
                   faults, sourceDry>>
    /\ UNCHANGED createFailed
    /\ UNCHANGED extractVars

\* the first query of the listing
ListingQuery ==
    /\ pc = "query"
    /\ \E n \in 0..MaxLoaded : articles' = QueryAll(n)
    /\ scroll_attempts' = 0
    /\ pc' = "scroll"
    /\ UNCHANGED <<mainVars, top_articles, metaVars, detailVars, browserVars, envVars>>
    /\ UNCHANGED createFailed
    /\ UNCHANGED extractVars

\* a loop condition without the scroll ceiling
ScrollCond_NoCeiling(n, t, s) == n < t

\* the while condition of the infinite-scroll loop
ScrollCond(n, t, s) == n < t /\ s < max_scroll_attempts

\* one iteration of the scroll loop: scroll, pause, query again
ListingScroll ==
    /\ pc = "scroll"
    /\ ScrollCond(Len(articles), top_n, scroll_attempts)
    /\ \E r \in 0..MaxReveal :
          /\ Len(articles) + r <= MaxLoaded
          /\ sourceDry => r = 0
          /\ articles' = QueryAll(Len(articles) + r)
          /\ sourceDry' = (r = 0)
    /\ scroll_attempts' = scroll_attempts + 1
    /\ UNCHANGED <<pc, mainVars, top_articles, metaVars, detailVars, browserVars,
                   faults, abortReason>>
    /\ UNCHANGED createFailed
    /\ UNCHANGED extractVars

\* a slice that keeps one element too many
Slice_OffByOne(s, n) == SubSeq(s, 1, Min(n + 1, Len(s)))

\* articles[:top_n] for top_n >= 0
Slice(s, n) == SubSeq(s, 1, Min(n, Len(s)))

\* leaving the scroll loop: top_articles = articles[:top_n]
ListingCollect ==
    /\ pc = "scroll"
    /\ ~ScrollCond(Len(articles), top_n, scroll_attempts)
    /\ top_articles' = Slice(articles, top_n)
    /\ mi' = 1
    /\ pc' = "meta"
    /\ UNCHANGED <<mainVars, articles, scroll_attempts, metadata_list, scraped_urls,
                   extracted, detailVars, browserVars, envVars>>
    /\ UNCHANGED createFailed
    /\ UNCHANGED extractVars

\* a membership test that never finds the url
AlreadyScraped_Never(url, seen) == FALSE

\* the test "article_url in scraped_urls"
AlreadyScraped(url, seen) == url \in seen

\* one iteration of the metadata loop: extract_article_metadata(article)
\* either raises (caught, item skipped) or returns a record with some href
ExtractMetadata ==
    /\ pc = "meta"
    /\ mi <= Len(top_articles)
    /\ \/ /\ faults < MaxFaults
          /\ faults' = faults + 1
          /\ extracted' = Append(extracted, "ERR")
          /\ UNCHANGED <<metadata_list, scraped_urls>>
       \/ \E h \in HrefValues :
             /\ extracted' = Append(extracted, h)
             /\ IF AlreadyScraped(h, scraped_urls)
                  THEN UNCHANGED <<metadata_list, scraped_urls>>
                  ELSE /\ scraped_urls' = scraped_urls \cup {h}
                       /\ metadata_list' = Append(metadata_list,
                              [elem |-> top_articles[mi], href |-> h])
             /\ UNCHANGED faults
    /\ mi' = mi + 1
    /\ UNCHANGED <<pc, mainVars, listingVars, detailVars, browserVars,
                   sourceDry, abortReason>>
    /\ UNCHANGED createFailed
    /\ UNCHANGED extractVars

\* end of the metadata loop: main_context.close(), current_context = None,
\* then the detail loop starts (or is empty)
MetadataDone ==
    /\ pc = "meta"
    /\ mi > Len(top_articles)
    /\ contexts' = Close(contexts, main_context)
    /\ current_context' = 0
    /\ i' = 0
    /\ attempt' = 0
    /\ pc' = IF Len(metadata_list) > 0 THEN "attempt" ELSE "finish"
    /\ UNCHANGED <<mainVars, listingVars, metaVars, articles_data, fetchLog,
                   main_context, article_page, pages, envVars>>
    /\ UNCHANGED createFailed
    /\ UNCHANGED extractVars

\* the detail loop moves to the next metadata record, or ends
NextItem ==
    IF i + 1 < Len(metadata_list)
      THEN /\ pc' = "attempt"
           /\ i' = i + 1
           /\ attempt' = 0
      ELSE /\ pc' = "finish"
           /\ UNCHANGED <<i, attempt>>

\* the message the except clause prints for the failure of 0-based attempt a
ReportOf(a) == IF a = max_attempts THEN "after_attempts" ELSE "retrying"

LogEntry(outcome) ==
    LET failed == IF outcome = "exhausted" THEN attempt + 1 ELSE attempt
    IN [item |-> i + 1, attempts |-> attempt + 1, outcome |-> outcome,
        session |-> current_context,
        reports |-> [k \in 1..failed |-> ReportOf(k - 1)]]

\* a rank counted from the end of the list
RankOf_Reversed(idx) == Len(metadata_list) - idx

\* the rank given to the record of loop index idx
RankOf(idx) == idx + 1

\* the try body's tail: merge rank, topic and comments into the metadata
\* record, append it to articles_data, break out of the retry loop
AppendRecord(comments, outcome) ==
    /\ articles_data' = Append(articles_data,
           [elem     |-> metadata_list[i + 1].elem,
            href     |-> metadata_list[i + 1].href,
            rank     |-> RankOf(i),
            topic    |-> req,
            comments |-> comments])
    /\ fetchLog' = Append(fetchLog, LogEntry(outcome))
    /\ NextItem

\* whether the retry loop runs another attempt after attempt a raised
RetryAfter(a) == a + 1 < max_attempts

\* an except clause that lets the exception leave scrape_top_articles
HandleException_Propagate ==
    /\ pc' = "aborted"
    /\ abortReason' = "item_failure"
    /\ UNCHANGED <<articles_data, i, attempt, fetchLog>>

\* the except clause of the retry loop: log, then the for loop goes on to
\* the next attempt; after the last attempt the item is left without record
HandleException ==
    /\ IF RetryAfter(attempt)
         THEN /\ pc' = "attempt"
              /\ attempt' = attempt + 1
              /\ UNCHANGED <<i, fetchLog>>
         ELSE /\ fetchLog' = Append(fetchLog, LogEntry("exhausted"))
              /\ NextItem
    /\ UNCHANGED <<articles_data, abortReason>>

\* the rotation test of one attempt
RotationDue(idx, k) == idx % k = 0

\* start of an attempt on a rotation boundary: close the current context if
\* there is one, then browser.new_context(...), which may raise
RotateContext ==
    /\ pc = "attempt"
    /\ RotationDue(i, rotate_every)
    /\ LET closed == IF current_context # 0
                       THEN Close(contexts, current_context)
                       ELSE contexts
       IN \/ /\ contexts' = Append(closed, NewHandle)
             /\ current_context' = Len(closed) + 1
             /\ pc' = "fetch"
             /\ UNCHANGED <<detailVars, faults, abortReason, createFailed>>
          \/ /\ faults < MaxFaults
             /\ faults' = faults + 1
             /\ createFailed' = TRUE
             /\ contexts' = closed
             /\ UNCHANGED current_context
             /\ HandleException
    /\ UNCHANGED <<mainVars, listingVars, metaVars, main_context, article_page,
                   pages, sourceDry>>
    /\ UNCHANGED extractVars

\* start of an attempt off a rotation boundary
KeepContext ==
    /\ pc = "attempt"
    /\ ~RotationDue(i, rotate_every)
    /\ pc' = "fetch"
    /\ UNCHANGED <<mainVars, listingVars, metaVars, detailVars, browserVars, envVars>>
    /\ UNCHANGED createFailed
    /\ UNCHANGED extractVars

\* href is None: comments stay [], scrape_comments is not called
FetchNoHref ==
    /\ pc = "fetch"
    /\ metadata_list[i + 1].href = None
    /\ AppendRecord(<<>>, "no_href")
    /\ UNCHANGED <<mainVars, listingVars, metaVars, browserVars, envVars>>
    /\ UNCHANGED createFailed
    /\ UNCHANGED extractVars

ContextUsable == current_context # 0 /\ contexts[current_context].open

\* scrape_comments: context.new_page(); raises when the context is None or
\* closed, and may raise otherwise
NewPage ==
    /\ pc = "fetch"
    /\ metadata_list[i + 1].href # None
    /\ \/ /\ ContextUsable
          /\ pages' = Append(pages, NewHandle)
          /\ article_page' = Len(pages) + 1
          /\ pc' = "nav"
          /\ UNCHANGED <<detailVars, faults, abortReason>>
       \/ /\ ContextUsable
          /\ faults < MaxFaults
          /\ faults' = faults + 1
          /\ HandleException
          /\ UNCHANGED <<pages, article_page>>
       \/ /\ ~ContextUsable
          /\ HandleException
          /\ UNCHANGED <<pages, article_page, faults>>
    /\ UNCHANGED <<mainVars, listingVars, metaVars, main_context, current_context,
                   contexts, sourceDry>>
    /\ UNCHANGED createFailed
    /\ UNCHANGED extractVars

\* scrape_comments: article_page.goto(); a failure closes the page and
\* returns [], which the caller appends as a success
Navigate ==
    /\ pc = "nav"
    /\ \/ /\ pc' = "idle"
          /\ UNCHANGED <<detailVars, pages, article_page, faults, abortReason>>
       \/ /\ faults < MaxFaults
          /\ faults' = faults + 1
          /\ pages' = Close(pages, article_page)
          /\ article_page' = 0
          /\ AppendRecord(<<>>, "nav_failed")
          /\ UNCHANGED abortReason
    /\ UNCHANGED <<mainVars, listingVars, metaVars, main_context, current_context,
                   contexts, sourceDry>>
    /\ UNCHANGED createFailed
    /\ UNCHANGED extractVars

\* scrape_comments: wait_for_load_state("networkidle") in try/except
WaitIdle ==
    /\ pc = "idle"
    /\ \E timedOut \in BOOLEAN : pc' = "evaluate"
    /\ UNCHANGED <<mainVars, listingVars, metaVars, detailVars, browserVars, envVars>>
    /\ UNCHANGED createFailed
    /\ UNCHANGED extractVars

\* scrape_comments: article_page.evaluate(scroll); an exception leaves
\* scrape_comments with the page still open
Evaluate ==
    /\ pc = "evaluate"
    /\ \/ /\ pc' = "selector"
          /\ UNCHANGED <<detailVars, article_page, faults, abortReason>>
       \/ /\ faults < MaxFaults
          /\ faults' = faults + 1
          /\ article_page' = 0
          /\ HandleException
    /\ UNCHANGED <<mainVars, listingVars, metaVars, main_context, current_context,
                   contexts, pages, sourceDry>>
    /\ UNCHANGED createFailed
    /\ UNCHANGED extractVars

\* scrape_comments: wait_for_selector("#comments-container") in try/except
WaitSelector ==
    /\ pc = "selector"
    /\ \E timedOut \in BOOLEAN : pc' = "collect"
    /\ UNCHANGED <<mainVars, listingVars, metaVars, detailVars, browserVars, envVars>>
    /\ UNCHANGED createFailed
    /\ UNCHANGED extractVars

\* scrape_comments: query_selector_all and inner_text of every comment, then
\* article_page.close() and return; an exception skips the close
CollectComments ==
    /\ pc = "collect"
    /\ \/ /\ AppendRecord(PageComments(metadata_list[i + 1].href), "ok")
          /\ pages' = Close(pages, article_page)
          /\ article_page' = 0
          /\ UNCHANGED <<faults, abortReason>>
       \/ /\ faults < MaxFaults
          /\ faults' = faults + 1
          /\ article_page' = 0
          /\ HandleException
          /\ UNCHANGED pages
    /\ UNCHANGED <<mainVars, listingVars, metaVars, main_context, current_context,
                   contexts, sourceDry>>
    /\ UNCHANGED createFailed
    /\ UNCHANGED extractVars

\* after the detail loop: close the current context if there is one,
\* browser.close(), return DataFrame(articles_data); main() appends it
Finish ==
    /\ pc = "finish"
    /\ contexts' = IF current_context # 0
                     THEN Close(contexts, current_context)
                     ELSE contexts
    /\ df_list' = Append(df_list, articles_data)
    /\ req' = req + 1
    /\ pc' = "main"
    /\ UNCHANGED <<top_n, rotate_every, requests, df, listingVars, metaVars, detailVars,
                   main_context, current_context, article_page, pages, envVars>>
    /\ UNCHANGED createFailed
    /\ UNCHANGED extractVars

RECURSIVE Concat(_)
\* pd.concat(df_list, ignore_index=True): the rows of every frame, in order
Concat(frames) ==
    IF frames = <<>> THEN <<>> ELSE Head(frames) \o Concat(Tail(frames))

\* main(): after the last request, concatenate and export
MainConcat ==
    /\ pc = "main"
    /\ req > requests
    /\ df' = Concat(df_list)
    /\ pc' = "done"
    /\ UNCHANGED <<top_n, rotate_every, requests, req, df_list, listingVars, metaVars,
                   detailVars, browserVars, envVars>>
    /\ UNCHANGED createFailed
    /\ UNCHANGED extractVars

Next ==
    \/ StartRequest
    \/ ListingGoto
    \/ ListingWait
    \/ ListingQuery
    \/ ListingScroll
    \/ ListingCollect
    \/ ExtractMetadata
    \/ MetadataDone
    \/ RotateContext
    \/ KeepContext
    \/ FetchNoHref
    \/ NewPage
    \/ Navigate
    \/ WaitIdle
    \/ Evaluate
    \/ WaitSelector
    \/ CollectComments
    \/ Finish
    \/ MainConcat

Spec == Init /\ [][Next]_vars

SpecMain == InitMain /\ [][Next]_vars

(***************************************************************************)
(* extract_article_metadata (core/utils.py)                                *)
(*                                                                         *)
(* A text is a sequence of tokens, the token " " being white space.  A     *)
(* sub-element, an attribute and an optional result are << >> when absent  *)
(* (None) and <<x>> when present.  An operator that can raise returns      *)
(* << >> for the exception and <<v>> for the value v.                      *)
(***************************************************************************)

RECURSIVE LStrip(_)
LStrip(t) == IF t # <<>> /\ Head(t) = " " THEN LStrip(Tail(t)) ELSE t

RECURSIVE RStrip(_)
RStrip(t) ==
    IF t # <<>> /\ t[Len(t)] = " " THEN RStrip(SubSeq(t, 1, Len(t) - 1)) ELSE t

\* str.strip()
Strip(t) == RStrip(LStrip(t))

NotSpace(x) == x # " "

\* str.split()
Split(t) == SelectSeq(t, NotSpace)

\* the tokens that int() accepts, with their values
IntValue ==
    ("1" :> 1) @@ ("5" :> 5) @@ ("12" :> 12) @@ ("18" :> 18) @@ ("34" :> 34)

\* int(text.strip().split()[0]): IndexError on an empty text, ValueError on
\* a first token that is no number
IntOfFirstToken(text) ==
    LET toks == Split(Strip(text))
    IN IF toks = <<>> \/ toks[1] \notin DOMAIN IntValue
         THEN <<>>
         ELSE <<IntValue[toks[1]]>>

IsNumber(x) == x \in DOMAIN IntValue

\* re.search(r'\d+', text): the first run of digits, if any
FirstDigits(text) == SelectSeq(text, IsNumber)

\* datetime.now().year
CurrentYear == 2026

MonthValue == ("Mar" :> 3) @@ ("Apr" :> 4) @@ ("Jul" :> 7)
DayValue == ("1" :> 1) @@ ("18" :> 18)
\* %Y years, and %y years written with an apostrophe
YearValue == ("2025" :> 2025) @@ ("2026" :> 2026)
ShortYearValue == ("'24" :> 2024)

\* a parenthesised annotation, removed by re.sub(r'\(.*?\)', '', raw_date)
ParenTokens == {"(2 hours ago)"}
NotParen(x) == x \notin ParenTokens

\* datetime.strptime(...).strftime("%Y-%m-%d") on month, day and year:
\* <<>> for ValueError, else <<the date as <<year, month, day>> >>
ParseDate(month, day, year) ==
    IF month \in DOMAIN MonthValue /\ day \in DOMAIN DayValue /\ year # 0
      THEN << <<year, MonthValue[month], DayValue[day]>> >>
      ELSE <<>>

\* the publication date: <<>> when parsing raises, else <<date>> with date
\* << >> (None) or <<the ISO date>>
DateOf(time_el) ==
    LET raw_date == IF time_el # <<>> THEN Strip(time_el[1]) ELSE <<>>
        cleaned  == Strip(SelectSeq(raw_date, NotParen))
        tokens   == Split(cleaned)
    IN IF raw_date = <<>> THEN << <<>> >>
       ELSE IF Len(tokens) = 3
         THEN LET year == IF tokens[3] \in DOMAIN ShortYearValue
                            THEN ShortYearValue[tokens[3]]
                          ELSE IF tokens[3] \in DOMAIN YearValue
                            THEN YearValue[tokens[3]]
                          ELSE 0
                  d == ParseDate(tokens[1], tokens[2], year)
              IN IF d = <<>> THEN <<>> ELSE <<d>>
       ELSE IF Len(tokens) = 2
         THEN LET d == ParseDate(tokens[1], tokens[2], CurrentYear)
              IN IF d = <<>> THEN <<>> ELSE <<d>>
       ELSE << <<>> >>

\* title: the stripped text of the title link, None without the link
TitleOf(title_link) ==
    IF title_link # <<>> THEN <<Strip(title_link[1].text)>> ELSE <<>>

\* href: the attribute of the title link, made absolute when it starts
\* with "/"
HrefOf(title_link) ==
    LET href == IF title_link # <<>> THEN title_link[1].href ELSE <<>>
    IN IF href # <<>> /\ href[1] # <<>> /\ href[1][1] = "/"
         THEN << <<"https://dev.to">> \o href[1] >>
         ELSE href

\* a read time of 0 where the element is missing
ReadTimeOf_ZeroSentinel(read_time_el) ==
    IF read_time_el # <<>> THEN IntOfFirstToken(read_time_el[1]) ELSE <<0>>

\* read_time_minutes: -1 without the element; <<>> when int() raises
ReadTimeOf(read_time_el) ==
    IF read_time_el # <<>> THEN IntOfFirstToken(read_time_el[1]) ELSE <<-1>>

\* tags: the stripped text of every tag link without its first two tokens
TagsOf(tag_el) ==
    [k \in 1..Len(tag_el) |->
        LET t == Strip(tag_el[k]) IN SubSeq(t, 3, Len(t))]

\* comments_count: the first number in the text of the comments link, 0
\* without the link ("0") or without a number
CommentsCountOf(comments_el) ==
    LET comments_text == IF comments_el # <<>> THEN Strip(comments_el[1])
                                               ELSE <<"0">>
        match == FirstDigits(comments_text)
    IN IF match # <<>> /\ match[1] \in DOMAIN IntValue
         THEN IntValue[match[1]]
         ELSE 0

\* reaction_count: 0 without the element; <<>> when int() raises
ReactionCountOf(reactions_el) ==
    IF reactions_el # <<>> THEN IntOfFirstToken(reactions_el[1]) ELSE <<0>>

\* extract_article_metadata(el): <<>> when a statement raises, else
\* <<the returned dictionary>>
extract_article_metadata(el) ==
    LET date      == DateOf(el.time_el)
        read_time == ReadTimeOf(el.read_time_el)
        reactions == ReactionCountOf(el.reactions_el)
    IN IF date = <<>> \/ read_time = <<>> \/ reactions = <<>>
         THEN <<>>
         ELSE << [date              |-> date[1],
                  title             |-> TitleOf(el.title_link),
                  href              |-> HrefOf(el.title_link),
                  read_time_minutes |-> read_time[1],
                  tags              |-> TagsOf(el.tag_el),
                  reaction_count    |-> reactions[1],
                  comments_count    |-> CommentsCountOf(el.comments_el)] >>

\* the article elements the function is applied to
TitleLinks ==
    {<<>>,
     <<[text |-> <<" ", "T", " ">>, href |-> <<>>]>>,
     <<[text |-> <<"T">>, href |-> << <<"/", "a">> >>]>>,
     <<[text |-> <<"T">>, href |-> << <<"https://dev.to", "/", "a">> >>]>>}
TimeTexts ==
    {<<>>,
     << <<"Apr", " ", "1", " ", "2025">> >>,
     << <<"Jul", " ", "1", " ", "'24">> >>,
     << <<"Mar", " ", "18">> >>,
     << <<"Mar", " ", "18", " ", "(2 hours ago)">> >>,
     << <<"just", " ", "now">> >>}
ReadTimeTexts ==
    {<<>>, << <<"5", " ", "min", " ", "read">> >>, << <<"min", " ", "read">> >>,
     << <<" ">> >>}
TagLists == {<<>>, << <<"#", " ", "python">> >>}
CommentsTexts ==
    {<<>>, << <<"12", " ", "comments">> >>, << <<"Add", " ", "Comment">> >>}
ReactionsTexts ==
    {<<>>, << <<"34", " ", "reactions">> >>, << <<"reactions">> >>}

Articles ==
    [title_link : TitleLinks, time_el : TimeTexts, read_time_el : ReadTimeTexts,
     tag_el : TagLists, comments_el : CommentsTexts, reactions_el : ReactionsTexts]

\* one call of extract_article_metadata on some article element
InitExtract ==
    /\ article \in Articles
    /\ metadata = <<>>
    /\ pc = "extract"
    /\ top_n = 1
    /\ rotate_every = 1
    /\ requests = 0
    /\ req = 1
    /\ df_list = <<>>
    /\ df = <<>>
    /\ articles = <<>>
    /\ scroll_attempts = 0
    /\ top_articles = <<>>
    /\ mi = 1
    /\ metadata_list = <<>>
    /\ scraped_urls = {}
    /\ articles_data = <<>>
    /\ i = 0
    /\ attempt = 0
    /\ main_context = 0
    /\ current_context = 0
    /\ article_page = 0
    /\ contexts = <<>>
    /\ pages = <<>>
    /\ extracted = <<>>
    /\ fetchLog = <<>>
    /\ faults = 0
    /\ sourceDry = FALSE
    /\ abortReason = "none"
    /\ createFailed = FALSE

\* metadata = extract_article_metadata(article)
ExtractCall ==
    /\ pc = "extract"
    /\ metadata' = extract_article_metadata(article)
    /\ pc' = "extracted"
    /\ UNCHANGED <<article, mainVars, listingVars, metaVars, detailVars,
                   browserVars, envVars, createFailed>>

NextExtract == ExtractCall

SpecExtract == InitExtract /\ [][NextExtract]_vars

(***************************************************************************)
(* Properties                                                              *)
(***************************************************************************)

\* scrape_top_articles has returned and its locals still hold its result
CallReturned == pc \in {"main", "done"} /\ req > 1

Ceil(n, k) == (n + k - 1) \div k

\* C1: the ranks of the returned records, read in output order, are
\* 1, 2, ..., n with n the number of returned records.
C1_RanksContiguous ==
    CallReturned =>
        \A j \in 1..Len(articles_data) : articles_data[j].rank = j

\* C2: every item that survived deduplication is in the output exactly
\* once; an item whose every attempt failed is kept with empty comments.
C2_EveryItemKept ==
    CallReturned =>
        \A m \in 1..Len(metadata_list) :
            /\ Cardinality({j \in 1..Len(articles_data) :
                   articles_data[j].elem = metadata_list[m].elem}) = 1
            /\ fetchLog[m].outcome = "exhausted" =>
                   \E j \in 1..Len(articles_data) :
                       /\ articles_data[j].elem = metadata_list[m].elem
                       /\ articles_data[j].comments = <<>>

\* C3: a navigation failure is retried: a record is given the empty
\* comments of a failed navigation only after max_attempts attempts.
C3_NavigationRetried ==
    \A e \in 1..Len(fetchLog) :
        fetchLog[e].outcome = "nav_failed" => fetchLog[e].attempts = max_attempts

\* C4: every page opened by scrape_comments has been closed exactly once
\* when scrape_comments has returned or raised.
C4_PageClosedOnce ==
    \A p \in 1..Len(pages) : p # article_page => pages[p].closes = 1

\* C5: with n >= 1 deduplicated items, exactly ceil(n / rotate_every) detail
\* contexts are created, item number k is fetched on detail context number
\* ceil(k / rotate_every), and a context is closed before its successor is
\* created; stated for the calls in which no context creation raised.
C5_RotationCount ==
    /\ CallReturned /\ Len(metadata_list) >= 1 /\ ~createFailed =>
          /\ Len(contexts) - 1 = Ceil(Len(metadata_list), rotate_every)
          /\ \A e \in 1..Len(fetchLog) :
                fetchLog[e].outcome \in {"ok", "nav_failed"} =>
                    fetchLog[e].session - 1 = Ceil(fetchLog[e].item, rotate_every)
    /\ \A c \in 1..Len(contexts) : c < Len(contexts) => ~contexts[c].open

\* C6: a timeout of a best-effort wait never makes an exception leave
\* scrape_top_articles.
C6_TimeoutSwallowed == abortReason # "listing_wait_timeout"

\* C7: once the listing page is acquired, a failing metadata extraction or
\* detail fetch never aborts the call: only the listing navigation or wait
\* can, every listing item is extracted and every deduplicated item gets
\* between 1 and max_attempts attempts before the call returns.
C7_BatchNeverAborted ==
    /\ pc = "aborted" =>
          /\ abortReason \in {"listing_navigation", "listing_wait_timeout"}
          /\ extracted = <<>>
          /\ fetchLog = <<>>
    /\ CallReturned =>
          /\ Len(extracted) = Len(top_articles)
          /\ Len(fetchLog) = Len(metadata_list)
          /\ \A e \in 1..Len(fetchLog) :
                /\ fetchLog[e].item = e
                /\ fetchLog[e].attempts \in 1..max_attempts

\* C7 witness: a call returned after an extraction error and a failed detail
\* attempt, each followed by a later item that was still processed
C7_Witness ==
    /\ CallReturned
    /\ \E a, b \in 1..Len(extracted) :
          a < b /\ extracted[a] = "ERR" /\ extracted[b] # "ERR"
    /\ \E e \in 1..Len(fetchLog) :
          e < Len(fetchLog) /\ fetchLog[e].attempts > 1

\* C8: no two records of one call's output share a present href.
C8_NoDuplicateHref ==
    \A a, b \in 1..Len(articles_data) :
        (a # b /\ articles_data[a].href = articles_data[b].href)
            => articles_data[a].href = None

\* C8 witness: the listing repeated a present href, after a failure, and the
\* call returned two records
C8_Witness ==
    /\ CallReturned
    /\ faults > 0
    /\ Len(articles_data) >= 2
    /\ \E a, b \in 1..Len(extracted) :
          a < b /\ extracted[a] = extracted[b] /\ extracted[a] \in Hrefs

\* C9: the concatenated records of one run of main() hold no two records
\* with the same present href.
C9_GloballyUnique ==
    pc = "done" =>
        \A a, b \in 1..Len(df) :
            (a # b /\ df[a].href = df[b].href) => df[a].href = None

\* C10: a scroll is issued only while fewer than top_n items are matched,
\* and the collected sequence is the first min(top_n, loaded) matched
\* elements in DOM order, never more than top_n.
C10_ScrollAndTruncate ==
    [][ /\ scroll_attempts' > scroll_attempts => Len(articles) < top_n
        /\ (pc = "scroll" /\ pc' = "meta") =>
              /\ Len(top_articles') = Min(top_n, Len(articles))
              /\ Len(top_articles') <= top_n
              /\ \A j \in 1..Len(top_articles') :
                    top_articles'[j] = articles[j] /\ top_articles'[j] = j
      ]_vars

\* C10 witness: after at least one scroll more than top_n items were loaded
\* and the list was truncated to top_n
C10_Witness ==
    /\ pc = "meta"
    /\ scroll_attempts > 0
    /\ Len(articles) > top_n
    /\ Len(top_articles) = top_n

\* C11: the scroll loop is bounded: every iteration adds one to
\* scroll_attempts, which never exceeds max_scroll_attempts, and at the
\* ceiling the loop is left for the metadata phase with the list as it is,
\* also when it holds fewer than top_n items.
C11_ScrollCeiling ==
    [][ /\ (pc = "scroll" /\ pc' = "scroll") =>
              /\ scroll_attempts' = scroll_attempts + 1
              /\ scroll_attempts' <= max_scroll_attempts
        /\ (pc = "scroll" /\ scroll_attempts = max_scroll_attempts) =>
              /\ pc' = "meta"
              /\ top_articles' = Slice(articles, top_n)
              /\ Len(articles) < top_n => top_articles' = articles
      ]_vars

\* C11 witness: the ceiling was reached with fewer than top_n items and the
\* metadata phase started on the partial list
C11_Witness ==
    /\ pc = "meta"
    /\ scroll_attempts = max_scroll_attempts
    /\ Len(articles) < top_n
    /\ top_articles = articles

\* C12: records are output in listing order: a record that is earlier in
\* the output comes from an earlier listing element, was fetched earlier
\* and has the smaller rank.
C12_ListingOrder ==
    /\ \A a, b \in 1..Len(metadata_list) :
          a < b => metadata_list[a].elem < metadata_list[b].elem
    /\ \A a, b \in 1..Len(fetchLog) :
          a < b => fetchLog[a].item < fetchLog[b].item
    /\ \A a, b \in 1..Len(articles_data) :
          a < b => /\ articles_data[a].elem < articles_data[b].elem
                   /\ articles_data[a].rank < articles_data[b].rank

\* C12 witness: a call returned three records, with a rotation for every
\* item and a retried attempt before the last item
C12_Witness ==
    /\ CallReturned
    /\ rotate_every = 1
    /\ Len(articles_data) = 3
    /\ \E e \in 1..Len(fetchLog) : e < Len(fetchLog) /\ fetchLog[e].attempts > 1

\* C13: when scrape_top_articles ends, by return or by an exception of the
\* listing navigation or wait, every context it created has been closed by
\* a close() call.
C13_ContextsClosed ==
    (CallReturned \/ pc = "aborted") =>
        \A c \in 1..Len(contexts) : contexts[c].closes >= 1

\* the listing element of position b gave a record that was dropped by the
\* "already scraped" test
DroppedAsDuplicate(b) ==
    /\ extracted[b] # "ERR"
    /\ \A m \in 1..Len(metadata_list) : metadata_list[m].elem # top_articles[b]

\* C17: a listing item is dropped as a duplicate only when an earlier item
\* of the listing had the same, present href; an item without href is never
\* dropped as a duplicate.
C17_DropOnlyPresentDuplicates ==
    \A b \in 1..Len(extracted) :
        DroppedAsDuplicate(b) =>
            /\ extracted[b] # None
            /\ \E a \in 1..(b - 1) : extracted[a] = extracted[b]

\* C18: whenever scrape_comments is started for an item, the context passed
\* to it has been created and is open.
C18_ContextOpenAtFetch ==
    (pc = "fetch" /\ metadata_list[i + 1].href # None) => ContextUsable

\* C19: at most one context is open at any point, every context but the
\* newest is closed, and no context receives close() twice.
C19_OneContextOpen ==
    /\ Cardinality({c \in 1..Len(contexts) : contexts[c].open}) <= 1
    /\ \A c \in 1..Len(contexts) :
          /\ c < Len(contexts) => ~contexts[c].open
          /\ contexts[c].closes <= 1

\* C15: an item whose max_attempts attempts all failed gets the "after N
\* attempts" report exactly once, for its last failure, which is not
\* reported as retryable; an item with fewer failures gets no such report.
C15_ExhaustedReportedOnce ==
    \A e \in 1..Len(fetchLog) :
        LET r == fetchLog[e].reports
            final == {k \in 1..Len(r) : r[k] = "after_attempts"}
        IN IF fetchLog[e].outcome = "exhausted"
             THEN final = {max_attempts}
             ELSE final = {}

\* the text of a present element holds no number
NoDigitToken(el) == el # <<>> /\ FirstDigits(el[1]) = <<>>

\* C14: a numeric field whose element is present but whose text holds no
\* digit token gets its sentinel (-1, 0, 0), and the extraction does not
\* raise.
C14_NoDigitGivesSentinel ==
    pc = "extracted" =>
        /\ NoDigitToken(article.read_time_el) =>
              metadata # <<>> /\ metadata[1].read_time_minutes = -1
        /\ NoDigitToken(article.reactions_el) =>
              metadata # <<>> /\ metadata[1].reaction_count = 0
        /\ NoDigitToken(article.comments_el) =>
              metadata # <<>> /\ metadata[1].comments_count = 0

\* the record of sentinels
SentinelRecord ==
    [date |-> <<>>, title |-> <<>>, href |-> <<>>, read_time_minutes |-> -1,
     tags |-> <<>>, reaction_count |-> 0, comments_count |-> 0]

\* every present element of el has a text of the expected shape
PresentWellFormed(el) ==
    /\ el.time_el # << <<"just", " ", "now">> >>
    /\ el.read_time_el \in {<<>>, << <<"5", " ", "min", " ", "read">> >>}
    /\ el.reactions_el \in {<<>>, << <<"34", " ", "reactions">> >>}

\* C16: an element without any sub-element gives, without raising, the
\* record of sentinels; whatever other elements are present, the extraction
\* of well-formed elements does not raise and, in every record returned,
\* each field whose element is missing holds its sentinel.
C16_MissingGivesSentinel ==
    pc = "extracted" =>
        /\ article = EmptyArticle => metadata = <<SentinelRecord>>
        /\ PresentWellFormed(article) => metadata # <<>>
        /\ metadata # <<>> =>
              /\ article.title_link = <<>> =>
                    metadata[1].title = <<>> /\ metadata[1].href = <<>>
              /\ article.time_el = <<>> => metadata[1].date = <<>>
              /\ article.read_time_el = <<>> => metadata[1].read_time_minutes = -1
              /\ article.tag_el = <<>> => metadata[1].tags = <<>>
              /\ article.reactions_el = <<>> => metadata[1].reaction_count = 0
              /\ article.comments_el = <<>> => metadata[1].comments_count = 0

\* C16 witness: the function was applied to an element without sub-elements
\* and returned a record
C16_Witness ==
    /\ pc = "extracted"
    /\ article = EmptyArticle
    /\ metadata # <<>>
====
